---- MODULE Spec2Model ----
(***************************************************************************)
(* The (23, 12, 7) standard and (24, 12, 8) extended Golay codecs of       *)
(* cai_golay: src/standard.rs and src/extended.rs.                         *)
(*                                                                         *)
(* A run is one use of one codec: a u16 is given to encode, the resulting  *)
(* u32 word crosses a channel that may flip bits of it, and the word is    *)
(* given to decode.  Words are modelled as the unsigned integers the Rust  *)
(* code holds; &, ^, >> and << are computed on them bit by bit.            *)
(***************************************************************************)
EXTENDS Integers, Sequences, FiniteSets, TLC

VARIABLES
    codec,  \* "standard" or "extended": which module's encode/decode is used
    data,   \* the u16 argument of encode
    word,   \* the u32 word: encode's result, then with the channel's flips
    err,    \* the XOR of all bits the channel has flipped so far
    out,    \* decode's result (Some, None or Panic); Pending before the call
    pc      \* "start", "encoded", "done" or "panicked"

vars == <<codec, data, word, err, out, pc>>

(***************************************************************************)
(* Bounds of the model.                                                    *)
(***************************************************************************)
\* The most bits the channel flips inside the codeword (SpecNoisy).
MaxFlips == 4
\* The same for the runs that go beyond the detection radius (SpecFar).
MaxFarFlips == 5
\* The most bits the channel flips anywhere in the u32 word (SpecAbort).
MaxWildFlips == 4
\* The most bits the channel flips in a word that is rotated (SpecRotate).
MaxRotFlips == 4

(***************************************************************************)
(* Machine integers.                                                       *)
(***************************************************************************)
U16 == 0 .. 65535
U12 == 0 .. 4095

RECURSIVE SlowAnd(_, _)
SlowAnd(a, b) ==
    IF a = 0 \/ b = 0 THEN 0
    ELSE ((a % 2) * (b % 2)) + 2 * SlowAnd(a \div 2, b \div 2)

RECURSIVE SlowXor(_, _)
SlowXor(a, b) ==
    IF a = 0 THEN b
    ELSE IF b = 0 THEN a
    ELSE (((a % 2) + (b % 2)) % 2) + 2 * SlowXor(a \div 2, b \div 2)

RECURSIVE SlowOnes(_)
SlowOnes(x) == IF x = 0 THEN 0 ELSE (x % 2) + SlowOnes(x \div 2)

\* The three operations on single bytes, tabulated once.
And8 == [a \in 0 .. 255 |-> [b \in 0 .. 255 |-> SlowAnd(a, b)]]
Xor8 == [a \in 0 .. 255 |-> [b \in 0 .. 255 |-> SlowXor(a, b)]]
Ones8 == [a \in 0 .. 255 |-> SlowOnes(a)]

\* a & b
RECURSIVE BitAnd(_, _)
BitAnd(a, b) ==
    IF a = 0 \/ b = 0 THEN 0
    ELSE And8[a % 256][b % 256] + 256 * BitAnd(a \div 256, b \div 256)

\* a ^ b
RECURSIVE BitXor(_, _)
BitXor(a, b) ==
    IF a = 0 THEN b
    ELSE IF b = 0 THEN a
    ELSE Xor8[a % 256][b % 256] + 256 * BitXor(a \div 256, b \div 256)

\* a | b
BitOr(a, b) == a + b - BitAnd(a, b)

\* x.count_ones()
RECURSIVE count_ones(_)
count_ones(x) == IF x = 0 THEN 0 ELSE Ones8[x % 256] + count_ones(x \div 256)

(***************************************************************************)
(* binfield_matrix: the product of a bit vector and a matrix given as a    *)
(* sequence of row masks.  Each row contributes the parity of word & row   *)
(* as the next lower bit of the accumulator, so the first row ends up in   *)
(* the most significant position.                                          *)
(***************************************************************************)
RECURSIVE matrix_fold(_, _, _, _)
matrix_fold(accum, v, mat, i) ==
    IF i > Len(mat) THEN accum
    ELSE matrix_fold(2 * accum + (count_ones(BitAnd(v, mat[i])) % 2),
                     v, mat, i + 1)

matrix_mul(v, mat) == matrix_fold(0, v, mat, 1)

matrix_mul_systematic(v, mat) == matrix_fold(v, v, mat, 1)

(***************************************************************************)
(* Results.  Option<(u16, usize)> and the panic of a failed assert_eq!.    *)
(* The field last is not part of the Rust value: it records, for a result  *)
(* returned by the last loop of decode with the literal count 3, the       *)
(* weight of the residual that matched, and is -1 in every other result.   *)
(***************************************************************************)
Some(d, n) == [tag |-> "Some", data |-> d, n |-> n, last |-> -1]
None == [tag |-> "None", data |-> 0, n |-> 0, last |-> -1]
Panic == [tag |-> "Panic", data |-> 0, n |-> 0, last |-> -1]
Pending == [tag |-> "Pending", data |-> 0, n |-> 0, last |-> -1]
\* encode's u32 result travels in the data field.
Ok(w) == [tag |-> "Ok", data |-> w, n |-> 0, last |-> -1]
\* The result res, noted as matched on the residual r.
MatchedOn(res, r) == [res EXCEPT !.last = count_ones(r)]
\* r is Some((d, n)).
IsSome(r, d, n) == r.tag = "Some" /\ r.data = d /\ r.n = n

(***************************************************************************)
(* standard.rs                                                             *)
(***************************************************************************)
standard_CORE_XPOSE == <<
    \b101001001111,
    \b111101101000,
    \b011110110100,
    \b001111011010,
    \b000111101101,
    \b101010111001,
    \b111100010011,
    \b110111000110,
    \b011011100011,
    \b100100111110,
    \b010010011111 >>

standard_PAR == <<
    \b10100100111110000000000,
    \b11110110100001000000000,
    \b01111011010000100000000,
    \b00111101101000010000000,
    \b00011110110100001000000,
    \b10101011100100000100000,
    \b11110001001100000010000,
    \b11011100011000000001000,
    \b01101110001100000000100,
    \b10010011111000000000010,
    \b01001001111100000000001 >>

standard_SYN == <<
    \b10001110101,
    \b10010011111,
    \b10101001011,
    \b11011100011,
    \b00110110011,
    \b01101100110,
    \b11011001100,
    \b00111101101,
    \b01111011010,
    \b11110110100,
    \b01100011101,
    \b11000111010 >>

\* standard_encode taking the product without the data in front of it.
standard_encode_unsystematic(d) ==
    IF d \div 2^12 # 0 THEN Panic
    ELSE Ok(matrix_mul(d, standard_CORE_XPOSE))

\* standard_encode asserting on one bit too few.
standard_encode_lax(d) ==
    IF d \div 2^13 # 0 THEN Panic
    ELSE Ok(matrix_mul_systematic(d, standard_CORE_XPOSE))

standard_encode(d) ==
    IF d \div 2^12 # 0 THEN Panic
    ELSE Ok(matrix_mul_systematic(d, standard_CORE_XPOSE))

\* rotate_11 moving the parity bits up by 11 places, not 12.
rotate_11_short(w) ==
    LET parity == BitAnd(w, \h7FF)
    IN  BitOr(w \div 2^11, parity * 2^11)

rotate_11(w) ==
    LET parity == BitAnd(w, \h7FF)
    IN  BitOr(w \div 2^11, parity * 2^12)

\* The position i (0-based) of the first SYN[i] within distance 2 of s, or
\* Len(SYN) when the loop runs to its end.
RECURSIVE standard_scan(_, _)
standard_scan(s, i) ==
    IF i >= Len(standard_SYN) THEN i
    ELSE IF count_ones(BitXor(s, standard_SYN[i + 1])) <= 2 THEN i
    ELSE standard_scan(s, i + 1)

standard_decode(w) ==
    IF w \div 2^23 # 0 THEN Panic
    ELSE
        LET d == (w \div 2^11) % 2^16
            \* parity bits only
            s == matrix_mul(w, standard_PAR)
            n == count_ones(s)
            \* one data bit and up to two parity bits
            i == standard_scan(s, 0)
            \* the rotated word
            sr == matrix_mul(rotate_11(w), standard_PAR)
            nr == count_ones(sr)
            ir == standard_scan(sr, 0)
            r == BitXor(sr, standard_SYN[ir + 1])
        IN  IF n <= 3 THEN Some(d, n)
            ELSE IF i < Len(standard_SYN)
            THEN Some(BitXor(d, 2^i),
                      count_ones(BitXor(s, standard_SYN[i + 1])) + 1)
            ELSE IF nr <= 3 THEN Some(BitXor(d, sr), nr)
            ELSE IF ir < Len(standard_SYN)
            THEN IF ir = 0
                 THEN Some(BitXor(BitXor(d, r), 2^11), count_ones(r) + 1)
                 ELSE MatchedOn(Some(BitXor(d, r), 3), r)
            ELSE None

(***************************************************************************)
(* extended.rs                                                             *)
(***************************************************************************)
extended_CORE == <<
    \b110001110101,
    \b011000111011,
    \b111101101000,
    \b011110110100,
    \b001111011010,
    \b110110011001,
    \b011011001101,
    \b001101100111,
    \b110111000110,
    \b101010010111,
    \b100100111110,
    \b100011101011 >>

extended_CORE_XPOSE == <<
    \b101001001111,
    \b111101101000,
    \b011110110100,
    \b001111011010,
    \b000111101101,
    \b101010111001,
    \b111100010011,
    \b110111000110,
    \b011011100011,
    \b100100111110,
    \b010010011111,
    \b110001110101 >>

extended_PAR == <<
    \b101001001111100000000000,
    \b111101101000010000000000,
    \b011110110100001000000000,
    \b001111011010000100000000,
    \b000111101101000010000000,
    \b101010111001000001000000,
    \b111100010011000000100000,
    \b110111000110000000010000,
    \b011011100011000000001000,
    \b100100111110000000000100,
    \b010010011111000000000010,
    \b110001110101000000000001 >>

extended_PAR_ALT == <<
    \b100000000000110001110101,
    \b010000000000011000111011,
    \b001000000000111101101000,
    \b000100000000011110110100,
    \b000010000000001111011010,
    \b000001000000110110011001,
    \b000000100000011011001101,
    \b000000010000001101100111,
    \b000000001000110111000110,
    \b000000000100101010010111,
    \b000000000010100100111110,
    \b000000000001100011101011 >>

\* extended_encode with the 11 rows of the standard code.
extended_encode_short(d) ==
    IF d \div 2^12 # 0 THEN Panic
    ELSE Ok(matrix_mul_systematic(d, standard_CORE_XPOSE))

extended_encode(d) ==
    IF d \div 2^12 # 0 THEN Panic
    ELSE Ok(matrix_mul_systematic(d, extended_CORE_XPOSE))

\* The position i (0-based) of the first row of mat within distance 2 of s,
\* or Len(mat) when the loop runs to its end.
\* extended_scan accepting a residual of weight 3.
RECURSIVE extended_scan_loose(_, _, _)
extended_scan_loose(s, mat, i) ==
    IF i >= Len(mat) THEN i
    ELSE IF count_ones(BitXor(s, mat[i + 1])) <= 3 THEN i
    ELSE extended_scan_loose(s, mat, i + 1)

\* extended_scan accepting a residual of weight 1 at most.
RECURSIVE extended_scan_strict(_, _, _)
extended_scan_strict(s, mat, i) ==
    IF i >= Len(mat) THEN i
    ELSE IF count_ones(BitXor(s, mat[i + 1])) <= 1 THEN i
    ELSE extended_scan_strict(s, mat, i + 1)

RECURSIVE extended_scan(_, _, _)
extended_scan(s, mat, i) ==
    IF i >= Len(mat) THEN i
    ELSE IF count_ones(BitXor(s, mat[i + 1])) <= 2 THEN i
    ELSE extended_scan(s, mat, i + 1)

extended_decode(w) ==
    IF w \div 2^24 # 0 THEN Panic
    ELSE
        LET d == (w \div 2^12) % 2^16
            \* upper 12 bits only
            s == matrix_mul(w, extended_PAR_ALT)
            n == count_ones(s)
            \* one bit of the lower 12 and up to two of the upper 12
            i == extended_scan(s, extended_CORE_XPOSE, 0)
            syn == BitXor(s, extended_CORE_XPOSE[i + 1])
            \* lower 12 bits only
            sl == matrix_mul(w, extended_PAR)
            nl == count_ones(sl)
            \* one bit of the upper 12 and two of the lower 12
            il == extended_scan(sl, extended_CORE, 0)
            synl == BitXor(sl, extended_CORE[il + 1])
        IN  IF n <= 3 THEN Some(BitXor(d, s), n)
            ELSE IF i < Len(extended_CORE_XPOSE)
            THEN Some(BitXor(d, syn), count_ones(syn) + 1)
            ELSE IF nl <= 3 THEN Some(d, nl)
            ELSE IF il < Len(extended_CORE)
            THEN MatchedOn(Some(BitXor(d, 2^11 \div 2^il), 3), synl)
            ELSE None

(***************************************************************************)
(* The two codecs behind one name, and the width of their codewords.       *)
(***************************************************************************)
Codecs == {"standard", "extended"}

encode(c, d) == IF c = "standard" THEN standard_encode(d) ELSE extended_encode(d)

decode(c, w) == IF c = "standard" THEN standard_decode(w) ELSE extended_decode(w)

Width(c) == IF c = "standard" THEN 23 ELSE 24

(***************************************************************************)
(* The run.                                                                *)
(***************************************************************************)
\* The data value whose codeword the tests of each module corrupt
\* exhaustively, and a further one the tests of standard.rs decode.
TestData(c) == IF c = "standard" THEN \b110111101110 ELSE \b110110100110

NoisyData == {TestData("standard"), TestData("extended"), \b101010101010}

InitWith(cs, ds) ==
    /\ codec \in cs
    /\ data \in ds
    /\ word = 0
    /\ err = 0
    /\ out = Pending
    /\ pc = "start"

\* The caller encodes data; a failed assertion ends the run.
Encode ==
    /\ pc = "start"
    /\ LET e == encode(codec, data)
       IN  IF e = Panic
           THEN /\ pc' = "panicked"
                /\ word' = word
           ELSE /\ pc' = "encoded"
                /\ word' = e.data
    /\ UNCHANGED <<codec, data, err, out>>

\* The channel flips bit k of the word.  Bits are flipped from the lowest
\* to the highest, so that each set of flipped bits arises once; at most
\* limit bits are flipped.
Flip(k, limit) ==
    /\ pc = "encoded"
    /\ count_ones(err) < limit
    /\ 2^k > err
    /\ word' = BitXor(word, 2^k)
    /\ err' = err + 2^k
    /\ UNCHANGED <<codec, data, out, pc>>

\* The receiver decodes the word; a failed assertion ends the run.
Decode ==
    /\ pc = "encoded"
    /\ LET r == decode(codec, word)
       IN  IF r = Panic
           THEN /\ pc' = "panicked"
                /\ out' = out
           ELSE /\ pc' = "done"
                /\ out' = r
    /\ UNCHANGED <<codec, data, word, err>>

\* Every 12-bit data value over a clean channel.
Init == InitWith(Codecs, U12)

Next == Encode \/ Decode

Spec == Init /\ [][Next]_vars

\* A few data values over a channel that flips up to MaxFlips bits of the
\* codeword.
InitNoisy == InitWith(Codecs, NoisyData)

NextNoisy ==
    \/ Encode
    \/ \E k \in 0 .. 23 : k < Width(codec) /\ Flip(k, MaxFlips)
    \/ Decode

SpecNoisy == InitNoisy /\ [][NextNoisy]_vars

\* One data value for each codec over a channel that flips up to
\* MaxFarFlips bits of the codeword.
InitFar == \E c \in Codecs : InitWith({c}, {TestData(c)})

NextFar ==
    \/ Encode
    \/ \E k \in 0 .. 23 : k < Width(codec) /\ Flip(k, MaxFarFlips)
    \/ Decode

SpecFar == InitFar /\ [][NextFar]_vars

\* Callers and channels that do not respect the preconditions: every u16
\* with a bit above position 11 is given to encode, and the channel flips
\* up to MaxWildFlips bits anywhere in the u32 word but its top bit
\* (integers here end at 2^31 - 1).
InitAbort == \E c \in Codecs : InitWith({c}, {TestData(c)} \cup (U16 \ U12))

NextAbort ==
    \/ Encode
    \/ \E k \in 0 .. 30 : Flip(k, MaxWildFlips)
    \/ Decode

SpecAbort == InitAbort /\ [][NextAbort]_vars

\* The standard decoder, past its assertion, rotates the word it was given
\* (the first step of its second half); the rotated word is kept in out.
Rotate ==
    /\ pc = "encoded"
    /\ codec = "standard"
    /\ word \div 2^23 = 0
    /\ out' = Ok(rotate_11(word))
    /\ pc' = "rotated"
    /\ UNCHANGED <<codec, data, word, err>>

\* The words the standard decoder rotates: the codewords of a few data
\* values, the all-zero and the all-one one among them, with up to
\* MaxRotFlips bits flipped.
RotateData == NoisyData \cup {0, \b111111111111}

InitRotate == InitWith({"standard"}, RotateData)

NextRotate ==
    \/ Encode
    \/ \E k \in 0 .. 22 : Flip(k, MaxRotFlips)
    \/ Rotate

SpecRotate == InitRotate /\ [][NextRotate]_vars

(***************************************************************************)
(* The values test_encode of both modules expects.                         *)
(***************************************************************************)
TestEncode ==
    /\ standard_encode(0) = Ok(0)
    /\ standard_encode(\b111111111111) = Ok(\b11111111111111111111111)
    /\ standard_encode(\b111111000000) = Ok(\b11111100000011001101000)
    /\ standard_encode(\b000000111111) = Ok(\b00000011111100110010111)
    /\ standard_encode(\b100000000001) = Ok(\b10000000000101001001111)
    /\ extended_encode(0) = Ok(0)
    /\ extended_encode(\b111111111111) = Ok(\b111111111111111111111111)
    /\ extended_encode(\b111111000000) = Ok(\b111111000000110011010001)
    /\ extended_encode(\b000000111111) = Ok(\b000000111111001100101110)
    /\ extended_encode(\b100000000001) = Ok(\b100000000001010010011110)

\* The values test_rotate11 expects.
TestRotate11 ==
    /\ rotate_11(\b11111111111100000000000) = \b00000000000111111111111
    /\ rotate_11(\b00000000000011111111111) = \b11111111111000000000000
    /\ rotate_11(\b10000000000000000000000) = \b00000000000100000000000

(***************************************************************************)
(* Claims.                                                                 *)
(***************************************************************************)
\* The codeword of data, whatever the run has done so far.
Codeword(c, d) == encode(c, d).data

\* C1: over a clean channel, every 12-bit data value d decodes back to
\* Some((d, 0)), with either codec.
C1_RoundTrip == pc = "done" => IsSome(out, data, 0)

C1_Witness ==
    /\ pc = "done"
    /\ codec = "extended"
    /\ data = 4095
    /\ err = 0
    /\ IsSome(out, 4095, 0)

\* C7: the codeword is systematic: standard::encode(d) is below 2^23 with
\* d in bits 22..11, extended::encode(d) is below 2^24 with d in bits
\* 23..12.
C7_Systematic ==
    pc = "encoded" /\ err = 0 =>
        /\ word < 2^Width(codec)
        /\ word \div 2^(Width(codec) - 12) = data

C7_Witness ==
    /\ pc = "encoded"
    /\ codec = "standard"
    /\ data = \b100000000001
    /\ word = \b10000000000101001001111

\* C8: the extended codeword is the standard codeword of the same data
\* with one bit appended, the parity of the standard codeword, and so has
\* even weight.
C8_ExtendsStandard ==
    pc = "encoded" /\ err = 0 /\ codec = "extended" =>
        /\ word \div 2 = Codeword("standard", data)
        /\ word % 2 = count_ones(Codeword("standard", data)) % 2
        /\ count_ones(word) % 2 = 0

C8_Witness ==
    /\ pc = "encoded"
    /\ codec = "extended"
    /\ data = \b111111000000
    /\ word = \b111111000000110011010001
    /\ word % 2 = 1

\* The channel has flipped n bits, all inside the codeword of codec c, and
\* the word has been decoded.
Decoded(c, n) ==
    /\ pc = "done"
    /\ codec = c
    /\ err < 2^Width(c)
    /\ count_ones(err) = n

\* C2: the standard decoder recovers the data from a codeword with up to 3
\* flipped bits, wherever they lie, and reports how many were flipped.
C2_StandardCorrects ==
    \A n \in 0 .. 3 : Decoded("standard", n) => IsSome(out, data, n)

\* C3: the extended decoder recovers the data from a codeword with up to 3
\* flipped bits, wherever they lie, and reports how many were flipped.
C3_ExtendedCorrects ==
    \A n \in 0 .. 3 : Decoded("extended", n) => IsSome(out, data, n)

\* Three flips, one in the upper half and two in the lower: the case of
\* the last loop of extended::decode.
C3_Witness ==
    /\ Decoded("extended", 3)
    /\ err = \b000000000001000000000011
    /\ IsSome(out, data, 3)
    /\ out.last = 2

\* C4: the extended decoder returns None for every codeword with exactly 4
\* flipped bits.
C4_ExtendedDetects4 == Decoded("extended", 4) => out = None

C4_Witness ==
    /\ Decoded("extended", 4)
    /\ err = \b100000000001000000000011
    /\ out = None

\* C5: the standard decoder returns None for every codeword with exactly 4
\* flipped bits.
C5_StandardDetects4 == Decoded("standard", 4) => out = None

\* C6 as stated: the extended decoder returns None for every codeword with
\* 4 or more flipped bits.
C6_ExtendedDetectsAll ==
    \A n \in 4 .. 24 : Decoded("extended", n) => out = None

\* C6 as amended: the extended decoder returns None for every codeword
\* with exactly 4 flipped bits, and for a codeword with 4 or more flipped
\* bits it never returns the data that was encoded: the result is None, or
\* Some((d2, n)) for another data value d2 whose codeword is at distance
\* n <= 3 from the word.
C6_ExtendedNeverOriginal ==
    \A n \in 4 .. 24 : Decoded("extended", n) =>
        /\ n = 4 => out = None
        /\ out # None =>
            /\ out.tag = "Some"
            /\ out.data # data
            /\ out.n <= 3
            /\ count_ones(BitXor(word, Codeword("extended", out.data))) = out.n

\* Five flips that lie inside a codeword of weight 8: the word is decoded
\* to the data of another codeword.
C6_Witness ==
    /\ Decoded("extended", 5)
    /\ out.tag = "Some"
    /\ out.data # data
    /\ out.n = 3

\* C10: a successful decode is exact, whatever word was received: the data
\* is below 2^12, the count is at most 3 and is the distance between the
\* word and the codeword of the returned data; and the last loop, which
\* returns the literal count 3, only ever matches on a residual of weight
\* exactly 2.
C10_ExactDecode ==
    pc = "done" /\ out.tag = "Some" =>
        /\ out.data < 2^12
        /\ out.n <= 3
        /\ count_ones(BitXor(word, Codeword(codec, out.data))) = out.n
        /\ out.last \in {-1, 2}

\* The standard decoder returning from its last loop at an index other
\* than 0, for a word at distance 5 from the codeword that was sent.
C10_Witness ==
    /\ Decoded("standard", 5)
    /\ out.tag = "Some"
    /\ out.last = 2
    /\ out.n = 3
    /\ out.data # data

\* C9: encode panics exactly when its argument has a bit above position
\* 11, decode exactly when its argument has a bit above position 22
\* (standard) or 23 (extended); every other call returns a value, which for
\* decode is Some or None.
C9_PanicsExactly ==
    /\ pc = "panicked" =>
           \/ data \div 2^12 # 0 /\ word = 0 /\ err = 0
           \/ data \div 2^12 = 0 /\ word \div 2^Width(codec) # 0
    /\ pc \in {"encoded", "done"} => data \div 2^12 = 0
    /\ pc = "done" =>
           /\ word \div 2^Width(codec) = 0
           /\ out.tag \in {"Some", "None"}
    /\ pc # "done" => out = Pending

\* Bit 23 flipped: a word the standard decoder refuses and the extended
\* decoder would accept.
C9_Witness ==
    /\ pc = "panicked"
    /\ codec = "standard"
    /\ data = TestData("standard")
    /\ err = 2^23
    /\ word = Codeword("standard", data) + 2^23

\* Bit k of x.
Bit(x, k) == (x \div 2^k) % 2

\* C11: rotate_11 rotates a 23-bit word right by 11 places: the result is
\* below 2^23, its bit k is bit (k + 11) mod 23 of the word, so that the 11
\* parity bits land in bits 22..12 and the 12 data bits in bits 11..0, and
\* it has as many bits set as the word.
C11_Rotates ==
    pc = "rotated" =>
        /\ out.tag = "Ok"
        /\ out.data < 2^23
        /\ \A k \in 0 .. 22 : Bit(out.data, k) = Bit(word, (k + 11) % 23)
        /\ out.data \div 2^12 = word % 2^11
        /\ out.data % 2^12 = word \div 2^11
        /\ count_ones(out.data) = count_ones(word)

\* A word with bits in both parts: the all-one codeword with its data MSB
\* and its lowest parity bit flipped.
C11_Witness ==
    /\ pc = "rotated"
    /\ data = \b111111111111
    /\ word = \b01111111111111111111110
    /\ out.data = \b11111111110011111111111

====
